---------------------------- MODULE Spec2Model ----------------------------
(***************************************************************************)
(* A model of the BLE peripheral toggle of src/src/main.rs: the STATE      *)
(* cell, the start_app task (readiness poll, service registration,         *)
(* advertising, console loop), the spawned dispatcher task running         *)
(* handle_updates for every event of the mpsc channel, and the peripheral  *)
(* mutex both tasks share.                                                 *)
(*                                                                         *)
(* Text is modelled as Rust holds it: a Vec<u8> / String is a sequence of  *)
(* bytes 0..255, String::from_utf8 validates and decodes it, str::trim     *)
(* strips Unicode White_Space at both ends and str::to_lowercase maps the  *)
(* code points.                                                            *)
(***************************************************************************)
EXTENDS Integers, Sequences, FiniteSets, TLC

(***************************************************************************)
(* Bounds of the model.                                                    *)
(***************************************************************************)
\* Events the facade places on the channel in one execution, and console
\* lines read successfully in one execution: where the remote requests are
\* looked at ...
MaxEvents == 2
MaxLines == 1
\* ... and where the console is.
MaxConsoleEvents == 1
MaxConsoleLines == 2
\* The count of not-powered polls saturates here (the poll loop itself is
\* not bounded).
MaxPolls == 1

\* mpsc::channel::<PeripheralEvent>(256)
ChannelCapacity == 256

(***************************************************************************)
(* Text: bytes, UTF-8 decoding, trim, to_lowercase.                        *)
(***************************************************************************)
IsCont(b) == b >= 128 /\ b <= 191

\* The length of the UTF-8 sequence starting at bs[i], or 0 when the bytes
\* there are not a well-formed sequence (the rules of core::str::from_utf8).
Utf8Width(bs, i) ==
    LET b0 == bs[i]
        n  == Len(bs)
        c(k) == i + k <= n /\ IsCont(bs[i + k])
    IN  IF b0 < 128 THEN 1
        ELSE IF b0 >= 194 /\ b0 <= 223
            THEN IF c(1) THEN 2 ELSE 0
        ELSE IF b0 = 224
            THEN IF i + 1 <= n /\ bs[i + 1] >= 160 /\ bs[i + 1] <= 191 /\ c(2)
                 THEN 3 ELSE 0
        ELSE IF (b0 >= 225 /\ b0 <= 236) \/ b0 = 238 \/ b0 = 239
            THEN IF c(1) /\ c(2) THEN 3 ELSE 0
        ELSE IF b0 = 237
            THEN IF i + 1 <= n /\ bs[i + 1] >= 128 /\ bs[i + 1] <= 159 /\ c(2)
                 THEN 3 ELSE 0
        ELSE IF b0 = 240
            THEN IF i + 1 <= n /\ bs[i + 1] >= 144 /\ bs[i + 1] <= 191
                    /\ c(2) /\ c(3)
                 THEN 4 ELSE 0
        ELSE IF b0 >= 241 /\ b0 <= 243
            THEN IF c(1) /\ c(2) /\ c(3) THEN 4 ELSE 0
        ELSE IF b0 = 244
            THEN IF i + 1 <= n /\ bs[i + 1] >= 128 /\ bs[i + 1] <= 143
                    /\ c(2) /\ c(3)
                 THEN 4 ELSE 0
        ELSE 0

\* The code point of the well-formed sequence of width w starting at bs[i].
Utf8CodePoint(bs, i, w) ==
    IF w = 1 THEN bs[i]
    ELSE IF w = 2 THEN (bs[i] - 192) * 64 + (bs[i + 1] - 128)
    ELSE IF w = 3
        THEN (bs[i] - 224) * 4096 + (bs[i + 1] - 128) * 64 + (bs[i + 2] - 128)
    ELSE (bs[i] - 240) * 262144 + (bs[i + 1] - 128) * 4096
            + (bs[i + 2] - 128) * 64 + (bs[i + 3] - 128)

RECURSIVE Utf8From(_, _)
\* Decoding from position i: <<TRUE, chars>> or <<FALSE, <<>>>>.
Utf8From(bs, i) ==
    IF i > Len(bs) THEN <<TRUE, <<>>>>
    ELSE LET w == Utf8Width(bs, i)
         IN  IF w = 0 THEN <<FALSE, <<>>>>
             ELSE LET rest == Utf8From(bs, i + w)
                  IN  IF rest[1]
                      THEN <<TRUE, <<Utf8CodePoint(bs, i, w)>> \o rest[2]>>
                      ELSE <<FALSE, <<>>>>

\* A decoding that takes every byte for a char and never fails.
from_utf8_unchecked(bs) == [ok |-> TRUE, chars |-> bs, bytes |-> bs]

\* String::from_utf8(bytes): Ok(String) or Err. The String is held as its
\* chars (code points) and its bytes.
from_utf8(bs) ==
    LET r == Utf8From(bs, 1)
    IN  [ok |-> r[1], chars |-> r[2], bytes |-> bs]

\* char::is_whitespace: the Unicode White_Space property.
is_whitespace(c) ==
    \/ c >= 9 /\ c <= 13
    \/ c = 32
    \/ c = 133
    \/ c = 160
    \/ c = 5760
    \/ c >= 8192 /\ c <= 8202
    \/ c = 8232
    \/ c = 8233
    \/ c = 8239
    \/ c = 8287
    \/ c = 12288

RECURSIVE trim_start(_)
trim_start(s) ==
    IF s # <<>> /\ is_whitespace(Head(s)) THEN trim_start(Tail(s)) ELSE s

RECURSIVE trim_end(_)
trim_end(s) ==
    IF s # <<>> /\ is_whitespace(s[Len(s)])
    THEN trim_end(SubSeq(s, 1, Len(s) - 1))
    ELSE s

\* str::trim
trim(s) == trim_end(trim_start(s))

\* The case tables of core::unicode (Unicode 17).
\* <<first, last, step, delta>>: the code points first, first + step, ..,
\* last have the lowercase mapping c + delta.
LowercaseRanges ==
  <<
    <<65, 90, 1, 32>>, <<192, 214, 1, 32>>, <<216, 222, 1, 32>>, <<256, 302, 2, 1>>,
    <<306, 310, 2, 1>>, <<313, 327, 2, 1>>, <<330, 374, 2, 1>>, <<376, 376, 1, -121>>,
    <<377, 381, 2, 1>>, <<385, 385, 1, 210>>, <<386, 388, 2, 1>>, <<390, 390, 1, 206>>,
    <<391, 391, 1, 1>>, <<393, 394, 1, 205>>, <<395, 395, 1, 1>>, <<398, 398, 1, 79>>,
    <<399, 399, 1, 202>>, <<400, 400, 1, 203>>, <<401, 401, 1, 1>>, <<403, 403, 1, 205>>,
    <<404, 404, 1, 207>>, <<406, 406, 1, 211>>, <<407, 407, 1, 209>>, <<408, 408, 1, 1>>,
    <<412, 412, 1, 211>>, <<413, 413, 1, 213>>, <<415, 415, 1, 214>>, <<416, 420, 2, 1>>,
    <<422, 422, 1, 218>>, <<423, 423, 1, 1>>, <<425, 425, 1, 218>>, <<428, 428, 1, 1>>,
    <<430, 430, 1, 218>>, <<431, 431, 1, 1>>, <<433, 434, 1, 217>>, <<435, 437, 2, 1>>,
    <<439, 439, 1, 219>>, <<440, 440, 1, 1>>, <<444, 444, 1, 1>>, <<452, 452, 1, 2>>,
    <<453, 453, 1, 1>>, <<455, 455, 1, 2>>, <<456, 456, 1, 1>>, <<458, 458, 1, 2>>,
    <<459, 475, 2, 1>>, <<478, 494, 2, 1>>, <<497, 497, 1, 2>>, <<498, 500, 2, 1>>,
    <<502, 502, 1, -97>>, <<503, 503, 1, -56>>, <<504, 542, 2, 1>>, <<544, 544, 1, -130>>,
    <<546, 562, 2, 1>>, <<570, 570, 1, 10795>>, <<571, 571, 1, 1>>, <<573, 573, 1, -163>>,
    <<574, 574, 1, 10792>>, <<577, 577, 1, 1>>, <<579, 579, 1, -195>>, <<580, 580, 1, 69>>,
    <<581, 581, 1, 71>>, <<582, 590, 2, 1>>, <<880, 882, 2, 1>>, <<886, 886, 1, 1>>,
    <<895, 895, 1, 116>>, <<902, 902, 1, 38>>, <<904, 906, 1, 37>>, <<908, 908, 1, 64>>,
    <<910, 911, 1, 63>>, <<913, 929, 1, 32>>, <<931, 939, 1, 32>>, <<975, 975, 1, 8>>,
    <<984, 1006, 2, 1>>, <<1012, 1012, 1, -60>>, <<1015, 1015, 1, 1>>, <<1017, 1017, 1, -7>>,
    <<1018, 1018, 1, 1>>, <<1021, 1023, 1, -130>>, <<1024, 1039, 1, 80>>, <<1040, 1071, 1, 32>>,
    <<1120, 1152, 2, 1>>, <<1162, 1214, 2, 1>>, <<1216, 1216, 1, 15>>, <<1217, 1229, 2, 1>>,
    <<1232, 1326, 2, 1>>, <<1329, 1366, 1, 48>>, <<4256, 4293, 1, 7264>>, <<4295, 4295, 1, 7264>>,
    <<4301, 4301, 1, 7264>>, <<5024, 5103, 1, 38864>>, <<5104, 5109, 1, 8>>, <<7305, 7305, 1, 1>>,
    <<7312, 7354, 1, -3008>>, <<7357, 7359, 1, -3008>>, <<7680, 7828, 2, 1>>, <<7838, 7838, 1, -7615>>,
    <<7840, 7934, 2, 1>>, <<7944, 7951, 1, -8>>, <<7960, 7965, 1, -8>>, <<7976, 7983, 1, -8>>,
    <<7992, 7999, 1, -8>>, <<8008, 8013, 1, -8>>, <<8025, 8031, 2, -8>>, <<8040, 8047, 1, -8>>,
    <<8072, 8079, 1, -8>>, <<8088, 8095, 1, -8>>, <<8104, 8111, 1, -8>>, <<8120, 8121, 1, -8>>,
    <<8122, 8123, 1, -74>>, <<8124, 8124, 1, -9>>, <<8136, 8139, 1, -86>>, <<8140, 8140, 1, -9>>,
    <<8152, 8153, 1, -8>>, <<8154, 8155, 1, -100>>, <<8168, 8169, 1, -8>>, <<8170, 8171, 1, -112>>,
    <<8172, 8172, 1, -7>>, <<8184, 8185, 1, -128>>, <<8186, 8187, 1, -126>>, <<8188, 8188, 1, -9>>,
    <<8486, 8486, 1, -7517>>, <<8490, 8490, 1, -8383>>, <<8491, 8491, 1, -8262>>, <<8498, 8498, 1, 28>>,
    <<8544, 8559, 1, 16>>, <<8579, 8579, 1, 1>>, <<9398, 9423, 1, 26>>, <<11264, 11311, 1, 48>>,
    <<11360, 11360, 1, 1>>, <<11362, 11362, 1, -10743>>, <<11363, 11363, 1, -3814>>, <<11364, 11364, 1, -10727>>,
    <<11367, 11371, 2, 1>>, <<11373, 11373, 1, -10780>>, <<11374, 11374, 1, -10749>>, <<11375, 11375, 1, -10783>>,
    <<11376, 11376, 1, -10782>>, <<11378, 11378, 1, 1>>, <<11381, 11381, 1, 1>>, <<11390, 11391, 1, -10815>>,
    <<11392, 11490, 2, 1>>, <<11499, 11501, 2, 1>>, <<11506, 11506, 1, 1>>, <<42560, 42604, 2, 1>>,
    <<42624, 42650, 2, 1>>, <<42786, 42798, 2, 1>>, <<42802, 42862, 2, 1>>, <<42873, 42875, 2, 1>>,
    <<42877, 42877, 1, -35332>>, <<42878, 42886, 2, 1>>, <<42891, 42891, 1, 1>>, <<42893, 42893, 1, -42280>>,
    <<42896, 42898, 2, 1>>, <<42902, 42920, 2, 1>>, <<42922, 42922, 1, -42308>>, <<42923, 42923, 1, -42319>>,
    <<42924, 42924, 1, -42315>>, <<42925, 42925, 1, -42305>>, <<42926, 42926, 1, -42308>>, <<42928, 42928, 1, -42258>>,
    <<42929, 42929, 1, -42282>>, <<42930, 42930, 1, -42261>>, <<42931, 42931, 1, 928>>, <<42932, 42946, 2, 1>>,
    <<42948, 42948, 1, -48>>, <<42949, 42949, 1, -42307>>, <<42950, 42950, 1, -35384>>, <<42951, 42953, 2, 1>>,
    <<42955, 42955, 1, -42343>>, <<42956, 42970, 2, 1>>, <<42972, 42972, 1, -42561>>, <<42997, 42997, 1, 1>>,
    <<65313, 65338, 1, 32>>, <<66560, 66599, 1, 40>>, <<66736, 66771, 1, 40>>, <<66928, 66964, 2, 39>>,
    <<66929, 66937, 2, 39>>, <<66941, 66953, 2, 39>>, <<66957, 66961, 2, 39>>, <<66965, 66965, 1, 39>>,
    <<68736, 68786, 1, 64>>, <<68944, 68965, 1, 32>>, <<71840, 71871, 1, 32>>, <<93760, 93791, 1, 32>>,
    <<93856, 93880, 1, 27>>, <<125184, 125217, 1, 34>>
  >>

\* <<first, last>>: the code points with the property Cased.
CasedRanges ==
  <<
    <<65, 90>>, <<97, 122>>, <<170, 170>>, <<181, 181>>, <<186, 186>>, <<192, 214>>,
    <<216, 246>>, <<248, 442>>, <<444, 447>>, <<452, 659>>, <<662, 696>>, <<704, 705>>,
    <<736, 740>>, <<837, 837>>, <<880, 883>>, <<886, 887>>, <<890, 893>>, <<895, 895>>,
    <<902, 902>>, <<904, 906>>, <<908, 908>>, <<910, 929>>, <<931, 1013>>, <<1015, 1153>>,
    <<1162, 1327>>, <<1329, 1366>>, <<1376, 1416>>, <<4256, 4293>>, <<4295, 4295>>, <<4301, 4301>>,
    <<4304, 4346>>, <<4348, 4351>>, <<5024, 5109>>, <<5112, 5117>>, <<7296, 7306>>, <<7312, 7354>>,
    <<7357, 7359>>, <<7424, 7615>>, <<7680, 7957>>, <<7960, 7965>>, <<7968, 8005>>, <<8008, 8013>>,
    <<8016, 8023>>, <<8025, 8025>>, <<8027, 8027>>, <<8029, 8029>>, <<8031, 8061>>, <<8064, 8116>>,
    <<8118, 8124>>, <<8126, 8126>>, <<8130, 8132>>, <<8134, 8140>>, <<8144, 8147>>, <<8150, 8155>>,
    <<8160, 8172>>, <<8178, 8180>>, <<8182, 8188>>, <<8305, 8305>>, <<8319, 8319>>, <<8336, 8348>>,
    <<8450, 8450>>, <<8455, 8455>>, <<8458, 8467>>, <<8469, 8469>>, <<8473, 8477>>, <<8484, 8484>>,
    <<8486, 8486>>, <<8488, 8488>>, <<8490, 8493>>, <<8495, 8500>>, <<8505, 8505>>, <<8508, 8511>>,
    <<8517, 8521>>, <<8526, 8526>>, <<8544, 8575>>, <<8579, 8580>>, <<9398, 9449>>, <<11264, 11492>>,
    <<11499, 11502>>, <<11506, 11507>>, <<11520, 11557>>, <<11559, 11559>>, <<11565, 11565>>, <<42560, 42605>>,
    <<42624, 42653>>, <<42786, 42887>>, <<42891, 42894>>, <<42896, 42972>>, <<42993, 42998>>, <<43000, 43002>>,
    <<43824, 43866>>, <<43868, 43881>>, <<43888, 43967>>, <<64256, 64262>>, <<64275, 64279>>, <<65313, 65338>>,
    <<65345, 65370>>, <<66560, 66639>>, <<66736, 66771>>, <<66776, 66811>>, <<66928, 66938>>, <<66940, 66954>>,
    <<66956, 66962>>, <<66964, 66965>>, <<66967, 66977>>, <<66979, 66993>>, <<66995, 67001>>, <<67003, 67004>>,
    <<67456, 67456>>, <<67459, 67461>>, <<67463, 67504>>, <<67506, 67514>>, <<68736, 68786>>, <<68800, 68850>>,
    <<68944, 68965>>, <<68976, 68997>>, <<71840, 71903>>, <<93760, 93823>>, <<93856, 93880>>, <<93883, 93907>>,
    <<119808, 119892>>, <<119894, 119964>>, <<119966, 119967>>, <<119970, 119970>>, <<119973, 119974>>, <<119977, 119980>>,
    <<119982, 119993>>, <<119995, 119995>>, <<119997, 120003>>, <<120005, 120069>>, <<120071, 120074>>, <<120077, 120084>>,
    <<120086, 120092>>, <<120094, 120121>>, <<120123, 120126>>, <<120128, 120132>>, <<120134, 120134>>, <<120138, 120144>>,
    <<120146, 120485>>, <<120488, 120512>>, <<120514, 120538>>, <<120540, 120570>>, <<120572, 120596>>, <<120598, 120628>>,
    <<120630, 120654>>, <<120656, 120686>>, <<120688, 120712>>, <<120714, 120744>>, <<120746, 120770>>, <<120772, 120779>>,
    <<122624, 122633>>, <<122635, 122654>>, <<122661, 122666>>, <<122928, 122989>>, <<125184, 125251>>, <<127280, 127305>>,
    <<127312, 127337>>, <<127344, 127369>>
  >>

\* <<first, last>>: the code points with the property Case_Ignorable.
CaseIgnorableRanges ==
  <<
    <<39, 39>>, <<46, 46>>, <<58, 58>>, <<94, 94>>, <<96, 96>>, <<168, 168>>,
    <<173, 173>>, <<175, 175>>, <<180, 180>>, <<183, 184>>, <<688, 879>>, <<884, 885>>,
    <<890, 890>>, <<900, 901>>, <<903, 903>>, <<1155, 1161>>, <<1369, 1369>>, <<1375, 1375>>,
    <<1425, 1469>>, <<1471, 1471>>, <<1473, 1474>>, <<1476, 1477>>, <<1479, 1479>>, <<1524, 1524>>,
    <<1536, 1541>>, <<1552, 1562>>, <<1564, 1564>>, <<1600, 1600>>, <<1611, 1631>>, <<1648, 1648>>,
    <<1750, 1757>>, <<1759, 1768>>, <<1770, 1773>>, <<1807, 1807>>, <<1809, 1809>>, <<1840, 1866>>,
    <<1958, 1968>>, <<2027, 2037>>, <<2042, 2042>>, <<2045, 2045>>, <<2070, 2093>>, <<2137, 2139>>,
    <<2184, 2184>>, <<2192, 2193>>, <<2199, 2207>>, <<2249, 2306>>, <<2362, 2362>>, <<2364, 2364>>,
    <<2369, 2376>>, <<2381, 2381>>, <<2385, 2391>>, <<2402, 2403>>, <<2417, 2417>>, <<2433, 2433>>,
    <<2492, 2492>>, <<2497, 2500>>, <<2509, 2509>>, <<2530, 2531>>, <<2558, 2558>>, <<2561, 2562>>,
    <<2620, 2620>>, <<2625, 2626>>, <<2631, 2632>>, <<2635, 2637>>, <<2641, 2641>>, <<2672, 2673>>,
    <<2677, 2677>>, <<2689, 2690>>, <<2748, 2748>>, <<2753, 2757>>, <<2759, 2760>>, <<2765, 2765>>,
    <<2786, 2787>>, <<2810, 2815>>, <<2817, 2817>>, <<2876, 2876>>, <<2879, 2879>>, <<2881, 2884>>,
    <<2893, 2893>>, <<2901, 2902>>, <<2914, 2915>>, <<2946, 2946>>, <<3008, 3008>>, <<3021, 3021>>,
    <<3072, 3072>>, <<3076, 3076>>, <<3132, 3132>>, <<3134, 3136>>, <<3142, 3144>>, <<3146, 3149>>,
    <<3157, 3158>>, <<3170, 3171>>, <<3201, 3201>>, <<3260, 3260>>, <<3263, 3263>>, <<3270, 3270>>,
    <<3276, 3277>>, <<3298, 3299>>, <<3328, 3329>>, <<3387, 3388>>, <<3393, 3396>>, <<3405, 3405>>,
    <<3426, 3427>>, <<3457, 3457>>, <<3530, 3530>>, <<3538, 3540>>, <<3542, 3542>>, <<3633, 3633>>,
    <<3636, 3642>>, <<3654, 3662>>, <<3761, 3761>>, <<3764, 3772>>, <<3782, 3782>>, <<3784, 3790>>,
    <<3864, 3865>>, <<3893, 3893>>, <<3895, 3895>>, <<3897, 3897>>, <<3953, 3966>>, <<3968, 3972>>,
    <<3974, 3975>>, <<3981, 3991>>, <<3993, 4028>>, <<4038, 4038>>, <<4141, 4144>>, <<4146, 4151>>,
    <<4153, 4154>>, <<4157, 4158>>, <<4184, 4185>>, <<4190, 4192>>, <<4209, 4212>>, <<4226, 4226>>,
    <<4229, 4230>>, <<4237, 4237>>, <<4253, 4253>>, <<4348, 4348>>, <<4957, 4959>>, <<5906, 5908>>,
    <<5938, 5939>>, <<5970, 5971>>, <<6002, 6003>>, <<6068, 6069>>, <<6071, 6077>>, <<6086, 6086>>,
    <<6089, 6099>>, <<6103, 6103>>, <<6109, 6109>>, <<6155, 6159>>, <<6211, 6211>>, <<6277, 6278>>,
    <<6313, 6313>>, <<6432, 6434>>, <<6439, 6440>>, <<6450, 6450>>, <<6457, 6459>>, <<6679, 6680>>,
    <<6683, 6683>>, <<6742, 6742>>, <<6744, 6750>>, <<6752, 6752>>, <<6754, 6754>>, <<6757, 6764>>,
    <<6771, 6780>>, <<6783, 6783>>, <<6823, 6823>>, <<6832, 6877>>, <<6880, 6891>>, <<6912, 6915>>,
    <<6964, 6964>>, <<6966, 6970>>, <<6972, 6972>>, <<6978, 6978>>, <<7019, 7027>>, <<7040, 7041>>,
    <<7074, 7077>>, <<7080, 7081>>, <<7083, 7085>>, <<7142, 7142>>, <<7144, 7145>>, <<7149, 7149>>,
    <<7151, 7153>>, <<7212, 7219>>, <<7222, 7223>>, <<7288, 7293>>, <<7376, 7378>>, <<7380, 7392>>,
    <<7394, 7400>>, <<7405, 7405>>, <<7412, 7412>>, <<7416, 7417>>, <<7468, 7530>>, <<7544, 7544>>,
    <<7579, 7679>>, <<8125, 8125>>, <<8127, 8129>>, <<8141, 8143>>, <<8157, 8159>>, <<8173, 8175>>,
    <<8189, 8190>>, <<8203, 8207>>, <<8216, 8217>>, <<8228, 8228>>, <<8231, 8231>>, <<8234, 8238>>,
    <<8288, 8292>>, <<8294, 8303>>, <<8305, 8305>>, <<8319, 8319>>, <<8336, 8348>>, <<8400, 8432>>,
    <<11388, 11389>>, <<11503, 11505>>, <<11631, 11631>>, <<11647, 11647>>, <<11744, 11775>>, <<11823, 11823>>,
    <<12293, 12293>>, <<12330, 12333>>, <<12337, 12341>>, <<12347, 12347>>, <<12441, 12446>>, <<12540, 12542>>,
    <<40981, 40981>>, <<42232, 42237>>, <<42508, 42508>>, <<42607, 42610>>, <<42612, 42621>>, <<42623, 42623>>,
    <<42652, 42655>>, <<42736, 42737>>, <<42752, 42785>>, <<42864, 42864>>, <<42888, 42890>>, <<42993, 42996>>,
    <<43000, 43001>>, <<43010, 43010>>, <<43014, 43014>>, <<43019, 43019>>, <<43045, 43046>>, <<43052, 43052>>,
    <<43204, 43205>>, <<43232, 43249>>, <<43263, 43263>>, <<43302, 43309>>, <<43335, 43345>>, <<43392, 43394>>,
    <<43443, 43443>>, <<43446, 43449>>, <<43452, 43453>>, <<43471, 43471>>, <<43493, 43494>>, <<43561, 43566>>,
    <<43569, 43570>>, <<43573, 43574>>, <<43587, 43587>>, <<43596, 43596>>, <<43632, 43632>>, <<43644, 43644>>,
    <<43696, 43696>>, <<43698, 43700>>, <<43703, 43704>>, <<43710, 43711>>, <<43713, 43713>>, <<43741, 43741>>,
    <<43756, 43757>>, <<43763, 43764>>, <<43766, 43766>>, <<43867, 43871>>, <<43881, 43883>>, <<44005, 44005>>,
    <<44008, 44008>>, <<44013, 44013>>, <<64286, 64286>>, <<64434, 64450>>, <<65024, 65039>>, <<65043, 65043>>,
    <<65056, 65071>>, <<65106, 65106>>, <<65109, 65109>>, <<65279, 65279>>, <<65287, 65287>>, <<65294, 65294>>,
    <<65306, 65306>>, <<65342, 65342>>, <<65344, 65344>>, <<65392, 65392>>, <<65438, 65439>>, <<65507, 65507>>,
    <<65529, 65531>>, <<66045, 66045>>, <<66272, 66272>>, <<66422, 66426>>, <<67456, 67461>>, <<67463, 67504>>,
    <<67506, 67514>>, <<68097, 68099>>, <<68101, 68102>>, <<68108, 68111>>, <<68152, 68154>>, <<68159, 68159>>,
    <<68325, 68326>>, <<68900, 68903>>, <<68942, 68942>>, <<68969, 68973>>, <<68975, 68975>>, <<69291, 69292>>,
    <<69317, 69317>>, <<69370, 69375>>, <<69446, 69456>>, <<69506, 69509>>, <<69633, 69633>>, <<69688, 69702>>,
    <<69744, 69744>>, <<69747, 69748>>, <<69759, 69761>>, <<69811, 69814>>, <<69817, 69818>>, <<69821, 69821>>,
    <<69826, 69826>>, <<69837, 69837>>, <<69888, 69890>>, <<69927, 69931>>, <<69933, 69940>>, <<70003, 70003>>,
    <<70016, 70017>>, <<70070, 70078>>, <<70089, 70092>>, <<70095, 70095>>, <<70191, 70193>>, <<70196, 70196>>,
    <<70198, 70199>>, <<70206, 70206>>, <<70209, 70209>>, <<70367, 70367>>, <<70371, 70378>>, <<70400, 70401>>,
    <<70459, 70460>>, <<70464, 70464>>, <<70502, 70508>>, <<70512, 70516>>, <<70587, 70592>>, <<70606, 70606>>,
    <<70608, 70608>>, <<70610, 70610>>, <<70625, 70626>>, <<70712, 70719>>, <<70722, 70724>>, <<70726, 70726>>,
    <<70750, 70750>>, <<70835, 70840>>, <<70842, 70842>>, <<70847, 70848>>, <<70850, 70851>>, <<71090, 71093>>,
    <<71100, 71101>>, <<71103, 71104>>, <<71132, 71133>>, <<71219, 71226>>, <<71229, 71229>>, <<71231, 71232>>,
    <<71339, 71339>>, <<71341, 71341>>, <<71344, 71349>>, <<71351, 71351>>, <<71453, 71453>>, <<71455, 71455>>,
    <<71458, 71461>>, <<71463, 71467>>, <<71727, 71735>>, <<71737, 71738>>, <<71995, 71996>>, <<71998, 71998>>,
    <<72003, 72003>>, <<72148, 72151>>, <<72154, 72155>>, <<72160, 72160>>, <<72193, 72202>>, <<72243, 72248>>,
    <<72251, 72254>>, <<72263, 72263>>, <<72273, 72278>>, <<72281, 72283>>, <<72330, 72342>>, <<72344, 72345>>,
    <<72544, 72544>>, <<72546, 72548>>, <<72550, 72550>>, <<72752, 72758>>, <<72760, 72765>>, <<72767, 72767>>,
    <<72850, 72871>>, <<72874, 72880>>, <<72882, 72883>>, <<72885, 72886>>, <<73009, 73014>>, <<73018, 73018>>,
    <<73020, 73021>>, <<73023, 73029>>, <<73031, 73031>>, <<73104, 73105>>, <<73109, 73109>>, <<73111, 73111>>,
    <<73177, 73177>>, <<73459, 73460>>, <<73472, 73473>>, <<73526, 73530>>, <<73536, 73536>>, <<73538, 73538>>,
    <<73562, 73562>>, <<78896, 78912>>, <<78919, 78933>>, <<90398, 90409>>, <<90413, 90415>>, <<92912, 92916>>,
    <<92976, 92982>>, <<92992, 92995>>, <<93504, 93506>>, <<93547, 93548>>, <<94031, 94031>>, <<94095, 94111>>,
    <<94176, 94177>>, <<94179, 94180>>, <<94194, 94195>>, <<110576, 110579>>, <<110581, 110587>>, <<110589, 110590>>,
    <<113821, 113822>>, <<113824, 113827>>, <<118528, 118573>>, <<118576, 118598>>, <<119143, 119145>>, <<119155, 119170>>,
    <<119173, 119179>>, <<119210, 119213>>, <<119362, 119364>>, <<121344, 121398>>, <<121403, 121452>>, <<121461, 121461>>,
    <<121476, 121476>>, <<121499, 121503>>, <<121505, 121519>>, <<122880, 122886>>, <<122888, 122904>>, <<122907, 122913>>,
    <<122915, 122916>>, <<122918, 122922>>, <<122928, 122989>>, <<123023, 123023>>, <<123184, 123197>>, <<123566, 123566>>,
    <<123628, 123631>>, <<124139, 124143>>, <<124398, 124399>>, <<124643, 124643>>, <<124646, 124646>>, <<124654, 124655>>,
    <<124661, 124661>>, <<124671, 124671>>, <<125136, 125142>>, <<125252, 125259>>, <<127995, 127999>>, <<917505, 917505>>,
    <<917536, 917631>>, <<917760, 917999>>
  >>

InRanges(c, ranges) ==
    \E i \in 1..Len(ranges) : ranges[i][1] <= c /\ c <= ranges[i][2]

Cased(c) == InRanges(c, CasedRanges)

Case_Ignorable(c) == InRanges(c, CaseIgnorableRanges)

\* core::unicode::conversions::to_lower: the chars a char lowercases to;
\* U+0130 is the one char that lowercases to two.
to_lower(c) ==
    IF c = 304 THEN <<105, 775>>
    ELSE LET hit == {i \in 1..Len(LowercaseRanges) :
                        /\ LowercaseRanges[i][1] <= c
                        /\ c <= LowercaseRanges[i][2]
                        /\ (c - LowercaseRanges[i][1]) % LowercaseRanges[i][3] = 0}
         IN  IF hit = {} THEN <<c>>
             ELSE <<c + LowercaseRanges[CHOOSE i \in hit : TRUE][4]>>

\* char::to_lowercase: the chars a char lowercases to.
char_to_lowercase(c) ==
    IF c < 128
    THEN IF c >= 65 /\ c <= 90 THEN <<c + 32>> ELSE <<c>>
    ELSE to_lower(c)

Reverse(s) == [i \in 1..Len(s) |-> s[Len(s) + 1 - i]]

RECURSIVE case_ignorable_then_cased(_)
\* iter.skip_while(Case_Ignorable).next() is a Cased char.
case_ignorable_then_cased(iter) ==
    IF iter = <<>> THEN FALSE
    ELSE IF Case_Ignorable(Head(iter)) THEN case_ignorable_then_cased(Tail(iter))
    ELSE Cased(Head(iter))

\* U+03A3 maps to U+03C3, except at the end of a word where it maps to
\* U+03C2 (Final_Sigma).
map_uppercase_sigma(from, i) ==
    IF /\ case_ignorable_then_cased(Reverse(SubSeq(from, 1, i - 1)))
       /\ ~case_ignorable_then_cased(SubSeq(from, i + 1, Len(from)))
    THEN <<962>> ELSE <<963>>

RECURSIVE to_lowercase_from(_, _)
\* The lowercase of the chars of s from the i-th on.
to_lowercase_from(s, i) ==
    IF i > Len(s) THEN <<>>
    ELSE (IF s[i] = 931 THEN map_uppercase_sigma(s, i)
          ELSE char_to_lowercase(s[i]))
         \o to_lowercase_from(s, i + 1)

\* str::to_lowercase
to_lowercase(s) == to_lowercase_from(s, 1)

\* The string literals of the source, as chars and as bytes (ASCII: the same).
ON_STR == <<111, 110>>
OFF_STR == <<111, 102, 102>>

(***************************************************************************)
(* Inputs: the byte strings the model draws console lines and write        *)
(* payloads from.                                                          *)
(***************************************************************************)
\* "on"
B_on == <<111, 110>>
\* "off"
B_off == <<111, 102, 102>>
\* "ON"
B_ON == <<79, 78>>
\* "Off"
B_Off == <<79, 102, 102>>
\* " On "
B_On_padded == <<32, 79, 110, 32>>
\* " on\n"
B_on_padded == <<32, 111, 110, 10>>
\* NO-BREAK SPACE (C2 A0), then "off"
B_off_nbsp == <<194, 160, 111, 102, 102>>
\* "maybe"
B_maybe == <<109, 97, 121, 98, 101>>
\* " maybe\n"
B_maybe_padded == <<32, 109, 97, 121, 98, 101, 10>>
\* [0xFF, 0xFE]: not UTF-8
B_bad == <<255, 254>>

\* The kinds of PeripheralEvent; "Other" stands for any variant the match of
\* handle_updates leaves to its catch-all arm.
LogOnlyKinds == {"StateUpdate", "CharacteristicSubscriptionUpdate", "Other"}

Ev(kind, value) == [kind |-> kind, value |-> value]

WriteEvents(payloads) == {Ev("WriteRequest", p) : p \in payloads}
ReadEvents == {Ev("ReadRequest", <<>>)}
LogOnlyEvents == {Ev(k, <<>>) : k \in LogOnlyKinds}

\* What a call of the facade, or a send on a responder, returns.
Results == {"Ok", "Err"}

(***************************************************************************)
(* State.                                                                  *)
(***************************************************************************)
VARIABLES
    State,      \* static STATE: AtomicBool (STATE is a reserved word of TLA+)
    lock,       \* the owner of the peripheral Mutex: "free", "main", "disp"
    chan,       \* the mpsc channel: the ids of the events queued
    events,     \* every event the facade has emitted; an event's id is its index
    resp,       \* per event, the sends made on its responder
    branch,     \* per event, the arm of handle_updates that handled it
    loaded,     \* per event, what STATE.load returned to its read handler
    mpc,        \* where start_app is
    npolls,     \* the polls that have found the peripheral not powered
    polled,     \* what the last is_powered() returned, "none" before the first
    lines,      \* the console lines read successfully, in order
    stdout,     \* what the console loop has printed
    calls,      \* the calls made on the facade, in order
    dpc,        \* where the dispatcher task is
    dcur,       \* the id of the event the dispatcher is handling, or 0
    current_state,  \* the local of the read handler (FALSE outside it)
    new_value,  \* the local of the write handler (<<>> outside it)
    base,       \* history: STATE as the last console command left it
    mark        \* history: the events taken up before the last console command

vars == <<State, lock, chan, events, resp, branch, loaded, mpc, npolls, polled,
          lines, stdout, calls, dpc, dcur, current_state, new_value, base, mark>>

mainVars == <<mpc, npolls, polled, lines, stdout, base, mark>>
dispVars == <<dpc, dcur, current_state, new_value>>
eventVars == <<events, resp, branch, loaded>>

\* static STATE: AtomicBool = AtomicBool::new(false); the channel is created
\* and start_app is about to call Peripheral::new.
Init ==
    /\ State = FALSE
    /\ lock = "free"
    /\ chan = <<>>
    /\ events = <<>>
    /\ resp = <<>>
    /\ branch = <<>>
    /\ loaded = <<>>
    /\ mpc = "new"
    /\ npolls = 0
    /\ polled = "none"
    /\ lines = <<>>
    /\ stdout = <<>>
    /\ calls = <<>>
    /\ dpc = "unspawned"
    /\ dcur = 0
    /\ current_state = FALSE
    /\ new_value = <<>>
    /\ base = FALSE
    /\ mark = 0

Call(op, value, by, n, result) ==
    [op |-> op, value |-> value, by |-> by, n |-> n, result |-> result]

Min(a, b) == IF a < b THEN a ELSE b

(***************************************************************************)
(* The facade: from the call of Peripheral::new(sender_tx) on, it places an *)
(* event on the channel (while the receiver lives: it is dropped with      *)
(* start_app's locals when the unwrap panics, and with the dispatcher task *)
(* afterwards).                                                            *)
(***************************************************************************)
Emit(env) ==
    /\ Len(events) < env.max_events
    /\ Len(chan) < ChannelCapacity
    /\ mpc # "panicked_new"
    /\ dpc # "cancelled"
    /\ \E e \in env.events :
        /\ events' = Append(events, e)
        /\ chan' = Append(chan, Len(events) + 1)
    /\ resp' = Append(resp, <<>>)
    /\ branch' = Append(branch, "none")
    /\ loaded' = Append(loaded, "none")
    /\ UNCHANGED <<State, lock, mainVars, calls, dispVars>>

(***************************************************************************)
(* start_app: the peripheral and the dispatcher task.                      *)
(***************************************************************************)
\* Peripheral::new(sender_tx).await.unwrap(): an Err panics, and start_app
\* unwinds before the dispatcher task is spawned; on Ok the task is spawned
\* (tokio::spawn does not wait) and start_app goes on to the poll.
PeripheralNew ==
    /\ mpc = "new"
    /\ \E r \in Results :
        /\ mpc' = IF r = "Err" THEN "panicked_new" ELSE "poll"
        /\ dpc' = IF r = "Err" THEN dpc ELSE "recv"
    /\ UNCHANGED <<State, lock, chan, eventVars, npolls, polled, lines, stdout, calls,
                   dcur, current_state, new_value, base, mark>>

(***************************************************************************)
(* start_app: the readiness poll.                                          *)
(***************************************************************************)
\* let mut periph = peripheral.lock().await;
PollLock ==
    /\ mpc = "poll"
    /\ lock = "free"
    /\ lock' = "main"
    /\ mpc' = "is_powered"
    /\ UNCHANGED <<State, chan, eventVars, npolls, polled, lines, stdout, calls, dispVars, base, mark>>

\* What is_powered() returns.
PowerResults == {"Ok(true)", "Ok(false)", "Err"}

\* A poll that takes an error for powered: unwrap_or(true).
IsPowered_ErrIsPowered ==
    /\ mpc = "is_powered"
    /\ lock' = "free"
    /\ \E r \in PowerResults :
        LET powered == (r # "Ok(false)")
        IN  /\ polled' = r
            /\ mpc' = IF powered THEN "add" ELSE "sleep"
            /\ npolls' = IF powered THEN npolls ELSE Min(npolls + 1, MaxPolls)
    /\ UNCHANGED <<State, chan, eventVars, lines, stdout, calls, dispVars, base, mark>>

\* A poll whose guard lives to the end of the loop body: the lock is held
\* over the sleep.
IsPowered_GuardOverSleep ==
    /\ mpc = "is_powered"
    /\ \E r \in PowerResults :
        LET powered == (r = "Ok(true)")
        IN  /\ polled' = r
            /\ lock' = IF powered THEN "free" ELSE lock
            /\ mpc' = IF powered THEN "add" ELSE "sleep"
            /\ npolls' = IF powered THEN npolls ELSE Min(npolls + 1, MaxPolls)
    /\ UNCHANGED <<State, chan, eventVars, lines, stdout, calls, dispVars, base, mark>>

\* periph.is_powered().await.unwrap_or(false); the guard is dropped at the end
\* of the block; if powered { break; }
IsPowered ==
    /\ mpc = "is_powered"
    /\ lock' = "free"
    /\ \E r \in PowerResults :
        LET powered == (r = "Ok(true)")
        IN  /\ polled' = r
            /\ mpc' = IF powered THEN "add" ELSE "sleep"
            /\ npolls' = IF powered THEN npolls ELSE Min(npolls + 1, MaxPolls)
    /\ UNCHANGED <<State, chan, eventVars, lines, stdout, calls, dispVars, base, mark>>

\* tokio::time::sleep(100 ms).await
Sleep ==
    /\ mpc = "sleep"
    /\ mpc' = "poll"
    /\ UNCHANGED <<State, lock, chan, eventVars, npolls, polled, lines, stdout, calls, dispVars, base, mark>>

(***************************************************************************)
(* start_app: add the service, start advertising.                          *)
(***************************************************************************)
AddLock ==
    /\ mpc = "add"
    /\ lock = "free"
    /\ lock' = "main"
    /\ mpc' = "add_service"
    /\ UNCHANGED <<State, chan, eventVars, npolls, polled, lines, stdout, calls, dispVars, base, mark>>

\* A start_app that logs the error of add_service and goes on.
AddService_Continuing ==
    /\ mpc = "add_service"
    /\ lock' = "free"
    /\ \E r \in Results :
        /\ calls' = Append(calls, Call("add_service", <<>>, "start_app", 0, r))
        /\ mpc' = "adv"
    /\ UNCHANGED <<State, chan, eventVars, npolls, polled, lines, stdout, dispVars, base, mark>>

\* if let Err(err) = periph.add_service(&service).await { ...; return; }
AddService ==
    /\ mpc = "add_service"
    /\ lock' = "free"
    /\ \E r \in Results :
        /\ calls' = Append(calls, Call("add_service", <<>>, "start_app", 0, r))
        /\ mpc' = IF r = "Err" THEN "failed_add_service" ELSE "adv"
    /\ UNCHANGED <<State, chan, eventVars, npolls, polled, lines, stdout, dispVars, base, mark>>

AdvLock ==
    /\ mpc = "adv"
    /\ lock = "free"
    /\ lock' = "main"
    /\ mpc' = "start_advertising"
    /\ UNCHANGED <<State, chan, eventVars, npolls, polled, lines, stdout, calls, dispVars, base, mark>>

\* A start_app that logs the error of start_advertising and goes on to the
\* console loop.
StartAdvertising_Continuing ==
    /\ mpc = "start_advertising"
    /\ lock' = "free"
    /\ \E r \in Results :
        /\ calls' = Append(calls, Call("start_advertising", <<>>, "start_app", 0, r))
        /\ mpc' = "console"
    /\ UNCHANGED <<State, chan, eventVars, npolls, polled, lines, stdout, dispVars, base, mark>>

\* if let Err(err) = periph.start_advertising(..).await { ...; return; }
StartAdvertising ==
    /\ mpc = "start_advertising"
    /\ lock' = "free"
    /\ \E r \in Results :
        /\ calls' = Append(calls, Call("start_advertising", <<>>, "start_app", 0, r))
        /\ mpc' = IF r = "Err" THEN "failed_start_advertising" ELSE "console"
    /\ UNCHANGED <<State, chan, eventVars, npolls, polled, lines, stdout, dispVars, base, mark>>

(***************************************************************************)
(* start_app: the console loop, for line in stdin.lock().lines().          *)
(***************************************************************************)
\* start_app has returned, and with it main: the runtime is shut down.
Returned == mpc \in {"failed_add_service", "failed_start_advertising",
                     "eof", "read_error"}

\* stdin is at its end: the for loop ends and start_app returns.
ConsoleEnd ==
    /\ mpc = "console"
    /\ mpc' = "eof"
    /\ UNCHANGED <<State, lock, chan, eventVars, npolls, polled, lines, stdout, calls, dispVars, base, mark>>

\* Err(err): an I/O error, or a line that is not UTF-8 (lines() gives
\* InvalidData for it); log::error!, break.
ConsoleError(env) ==
    /\ mpc = "console"
    /\ \/ TRUE
       \/ \E x \in env.lines : ~from_utf8(x).ok
    /\ mpc' = "read_error"
    /\ UNCHANGED <<State, lock, chan, eventVars, npolls, polled, lines, stdout, calls, dispVars, base, mark>>

\* Ok(input)
ConsoleLine(env) ==
    /\ mpc = "console"
    /\ Len(lines) < env.max_lines
    /\ \E x \in env.lines :
        /\ from_utf8(x).ok
        /\ lines' = Append(lines, x)
    /\ mpc' = "match"
    /\ UNCHANGED <<State, lock, chan, eventVars, npolls, polled, stdout, calls, dispVars, base, mark>>

\* The line the console loop is working on.
input == lines[Len(lines)]

Printed(msg, arg) == [msg |-> msg, arg |-> arg]

\* let trimmed_input = input.trim().to_lowercase();
trimmed_input(in) == to_lowercase(trim(in))

\* start_app has panicked, in the unwrap of Peripheral::new or in a println!:
\* main unwinds, and the runtime is dropped with it.
Panicked == mpc \in {"panicked_new", "panicked"}

\* The process is at its end: start_app has returned or has panicked.
Ended == Returned \/ Panicked

\* match trimmed_input.as_str() { "on" => STATE.store(true), "off" =>
\* STATE.store(false), _ => .. }: the arm is chosen and its store is made; the
\* println! of the arm is still to come.
ConsoleMatch ==
    /\ mpc = "match"
    /\ \E text \in {from_utf8(input).chars} :
       \E t \in {trimmed_input(text)} :
       \E stored \in {IF t = ON_STR THEN TRUE
                       ELSE IF t = OFF_STR THEN FALSE
                       ELSE State} :
           /\ State' = stored
           /\ base' = stored
    /\ mark' = Cardinality({id \in 1..Len(events) : branch[id] # "none"})
    /\ mpc' = "println"
    /\ UNCHANGED <<lock, chan, eventVars, npolls, polled, lines, stdout, calls, dispVars>>

\* println!("STATE changed to: ON"), println!("STATE changed to: OFF") or
\* println!("Writing: {} to {:?}", input, char_uuid): it waits until stdout
\* takes the text, and panics when the write fails.
Println ==
    /\ mpc = "println"
    /\ \E text \in {from_utf8(input).chars} :
       \E t \in {trimmed_input(text)} :
       \E printed \in Results :
           /\ stdout' = IF printed = "Err" THEN stdout
                        ELSE Append(stdout,
                                IF t = ON_STR
                                THEN Printed("STATE changed to: ON", <<>>)
                                ELSE IF t = OFF_STR
                                THEN Printed("STATE changed to: OFF", <<>>)
                                ELSE Printed("Writing", input))
           /\ mpc' = IF printed = "Err" THEN "panicked" ELSE "lock"
    /\ UNCHANGED <<State, lock, chan, eventVars, npolls, polled, lines, calls, dispVars,
                   base, mark>>

\* let mut periph = peripheral.lock().await;
ConsoleLock ==
    /\ mpc = "lock"
    /\ lock = "free"
    /\ lock' = "main"
    /\ mpc' = "update_characteristic"
    /\ UNCHANGED <<State, chan, eventVars, npolls, polled, lines, stdout, calls, dispVars, base, mark>>

\* A console loop whose guard outlives the arm: the lock is kept while the
\* loop waits for the next line.
ConsoleUpdate_KeepsLock(env) ==
    /\ mpc = "update_characteristic"
    /\ \E r \in env.update_results :
        calls' = Append(calls,
                    Call("update_characteristic", input, "console", Len(lines), r))
    /\ lock' = lock
    /\ mpc' = "console"
    /\ UNCHANGED <<State, chan, eventVars, npolls, polled, lines, stdout, dispVars, base, mark>>

\* periph.update_characteristic(char_uuid, input.into()).await; an error is
\* logged; the guard is dropped at the end of the arm.
ConsoleUpdate(env) ==
    /\ mpc = "update_characteristic"
    /\ \E r \in env.update_results :
        calls' = Append(calls,
                    Call("update_characteristic", input, "console", Len(lines), r))
    /\ lock' = "free"
    /\ mpc' = "console"
    /\ UNCHANGED <<State, chan, eventVars, npolls, polled, lines, stdout, dispVars, base, mark>>

(***************************************************************************)
(* The dispatcher task: while let Some(event) = receiver_rx.recv().await   *)
(* { handle_updates(event, ..).await; }                                    *)
(***************************************************************************)
\* A dispatcher that takes the next event while a handler waits for the lock
\* (handlers spawned, not awaited).
Recv_WhileHandlerWaits ==
    /\ dpc \in {"recv", "write_lock"}
    /\ chan # <<>>
    /\ dcur' = Head(chan)
    /\ chan' = Tail(chan)
    /\ dpc' = "handle"
    /\ UNCHANGED <<State, lock, eventVars, mainVars, calls, current_state, new_value>>

\* while let Some(event) = receiver_rx.recv().await
Recv ==
    /\ dpc = "recv"
    /\ chan # <<>>
    /\ dcur' = Head(chan)
    /\ chan' = Tail(chan)
    /\ dpc' = "handle"
    /\ UNCHANGED <<State, lock, eventVars, mainVars, calls, current_state, new_value>>

\* A StateUpdate arm that keeps is_powered in STATE.
HandleLogOnly_StoresPower ==
    /\ dpc = "handle"
    /\ events[dcur].kind \in LogOnlyKinds
    /\ branch' = [branch EXCEPT ![dcur] = events[dcur].kind]
    /\ State' = TRUE
    /\ dpc' = "recv"
    /\ dcur' = 0
    /\ UNCHANGED <<lock, chan, events, resp, loaded, mainVars, calls,
                   current_state, new_value>>

\* A subscription arm that pushes the current value to the new subscriber.
HandleLogOnly_Notifies ==
    /\ dpc = "handle"
    /\ events[dcur].kind \in LogOnlyKinds
    /\ branch' = [branch EXCEPT ![dcur] = events[dcur].kind]
    /\ calls' = IF events[dcur].kind = "CharacteristicSubscriptionUpdate"
                THEN Append(calls, Call("update_characteristic",
                                        IF State THEN ON_STR ELSE OFF_STR,
                                        "dispatcher", dcur, "Ok"))
                ELSE calls
    /\ dpc' = "recv"
    /\ dcur' = 0
    /\ UNCHANGED <<State, lock, chan, events, resp, loaded, mainVars,
                   current_state, new_value>>

\* StateUpdate, CharacteristicSubscriptionUpdate and the catch-all arm:
\* log::info! and nothing else.
HandleLogOnly ==
    /\ dpc = "handle"
    /\ events[dcur].kind \in LogOnlyKinds
    /\ branch' = [branch EXCEPT ![dcur] = events[dcur].kind]
    /\ dpc' = "recv"
    /\ dcur' = 0
    /\ UNCHANGED <<State, lock, chan, events, resp, loaded, mainVars, calls,
                   current_state, new_value>>

\* let current_state = STATE.load(Ordering::SeqCst);
ReadLoad ==
    /\ dpc = "handle"
    /\ events[dcur].kind = "ReadRequest"
    /\ current_state' = State
    /\ loaded' = [loaded EXCEPT ![dcur] = IF State THEN "ON" ELSE "OFF"]
    /\ branch' = [branch EXCEPT ![dcur] = "ReadRequest"]
    /\ dpc' = "read_send"
    /\ UNCHANGED <<State, lock, chan, events, resp, mainVars, calls, dcur, new_value>>

Response(type, value, response, result) ==
    [type |-> type, value |-> value, response |-> response, result |-> result]

\* A handler that reads STATE again when it answers.
response_value_reloaded == IF State THEN ON_STR ELSE OFF_STR

\* let response_value = if current_state { "on" } else { "off" };
response_value == IF current_state THEN ON_STR ELSE OFF_STR

\* A read handler that sends again after a failed send.
ReadSend_Retrying(env) ==
    /\ dpc = "read_send"
    /\ \E r \in env.send_results :
        /\ resp' = [resp EXCEPT ![dcur] =
                    Append(@, Response("ReadRequestResponse", response_value,
                                       "Success", r))]
        /\ dpc' = IF r = "Err" /\ resp[dcur] = <<>> THEN "read_send" ELSE "recv"
        /\ dcur' = IF r = "Err" /\ resp[dcur] = <<>> THEN dcur ELSE 0
        /\ current_state' = IF r = "Err" /\ resp[dcur] = <<>>
                            THEN current_state ELSE FALSE
    /\ UNCHANGED <<State, lock, chan, events, branch, loaded, mainVars, calls,
                   new_value>>

\* responder.send(ReadRequestResponse { value, response: Success }); a failed
\* send (the receiver is gone) is logged.
ReadSend(env) ==
    /\ dpc = "read_send"
    /\ \E r \in env.send_results :
        resp' = [resp EXCEPT ![dcur] =
                    Append(@, Response("ReadRequestResponse", response_value,
                                       "Success", r))]
    /\ dpc' = "recv"
    /\ dcur' = 0
    /\ current_state' = FALSE
    /\ UNCHANGED <<State, lock, chan, events, branch, loaded, mainVars, calls,
                   new_value>>

Matched(token, value) == [token |-> token, new_value |-> value]

\* A match that does not trim.
match_msg_untrimmed(msg) ==
    IF msg.chars = ON_STR THEN Matched("on", ON_STR)
    ELSE IF msg.chars = OFF_STR THEN Matched("off", OFF_STR)
    ELSE Matched("unrecognized", msg.bytes)

\* A match that lowercases as the console does.
match_msg_lowercased(msg) ==
    LET t == to_lowercase(trim(msg.chars))
    IN  IF t = ON_STR THEN Matched("on", ON_STR)
        ELSE IF t = OFF_STR THEN Matched("off", OFF_STR)
        ELSE Matched("unrecognized", msg.bytes)

\* let new_value = match msg.trim() { "on" => "on", "off" => "off",
\* _ => msg.as_str() }: the arm taken and the value of the match.
match_msg(msg) ==
    LET t == trim(msg.chars)
    IN  IF t = ON_STR THEN Matched("on", ON_STR)
        ELSE IF t = OFF_STR THEN Matched("off", OFF_STR)
        ELSE Matched("unrecognized", msg.bytes)

\* if let Ok(msg) = String::from_utf8(value.clone()) { match msg.trim() {
\* "on" => STATE.store(true), "off" => STATE.store(false), _ => log::warn! } }
\* else { log::error!("WriteRequest: Received non-UTF8 data") }
WriteDecode ==
    /\ dpc = "handle"
    /\ events[dcur].kind = "WriteRequest"
    /\ \E msg \in {from_utf8(events[dcur].value)} :
       \E m \in {IF msg.ok THEN match_msg(msg)
                  ELSE Matched("non_utf8", new_value)} :
           /\ State' = (IF m.token = "on" THEN TRUE
                        ELSE IF m.token = "off" THEN FALSE
                        ELSE State)
           /\ new_value' = m.new_value
           /\ branch' = [branch EXCEPT ![dcur] = m.token]
           /\ dpc' = (IF msg.ok THEN "write_lock" ELSE "write_send")
    /\ UNCHANGED <<lock, chan, events, resp, loaded, mainVars, calls, dcur,
                   current_state>>

\* peripheral.lock().await
WriteLock ==
    /\ dpc = "write_lock"
    /\ lock = "free"
    /\ lock' = "disp"
    /\ dpc' = "write_update"
    /\ UNCHANGED <<State, chan, eventVars, mainVars, calls, dcur, current_state,
                   new_value>>

\* A handler that notifies the payload as it was received.
WriteUpdate_Raw(env) ==
    /\ dpc = "write_update"
    /\ \E r \in env.update_results :
        calls' = Append(calls,
                    Call("update_characteristic", events[dcur].value,
                         "dispatcher", dcur, r))
    /\ lock' = "free"
    /\ dpc' = "write_send"
    /\ UNCHANGED <<State, chan, eventVars, mainVars, dcur, current_state, new_value>>

\* .update_characteristic(char_uuid, new_value.into()).await; an error is
\* logged; the guard is a temporary of the statement.
WriteUpdate(env) ==
    /\ dpc = "write_update"
    /\ \E r \in env.update_results :
        calls' = Append(calls,
                    Call("update_characteristic", new_value, "dispatcher", dcur, r))
    /\ lock' = "free"
    /\ dpc' = "write_send"
    /\ UNCHANGED <<State, chan, eventVars, mainVars, dcur, current_state, new_value>>

\* A handler that rejects what it did not recognize.
WriteSend_Rejecting(env) ==
    /\ dpc = "write_send"
    /\ \E r \in env.send_results :
        resp' = [resp EXCEPT ![dcur] =
                    Append(@, Response("WriteRequestResponse", <<>>,
                                       IF branch[dcur] \in {"on", "off"}
                                       THEN "Success" ELSE "InvalidHandle", r))]
    /\ dpc' = "recv"
    /\ dcur' = 0
    /\ new_value' = <<>>
    /\ UNCHANGED <<State, lock, chan, events, branch, loaded, mainVars, calls,
                   current_state>>

\* responder.send(WriteRequestResponse { response: Success }); a failed send
\* is logged.
WriteSend(env) ==
    /\ dpc = "write_send"
    /\ \E r \in env.send_results :
        resp' = [resp EXCEPT ![dcur] =
                    Append(@, Response("WriteRequestResponse", <<>>, "Success", r))]
    /\ dpc' = "recv"
    /\ dcur' = 0
    /\ new_value' = <<>>
    /\ UNCHANGED <<State, lock, chan, events, branch, loaded, mainVars, calls,
                   current_state>>

\* The points where the dispatcher task awaits.
DispAwaits == {"recv", "write_lock", "write_update"}

\* main returns when start_app does (or unwinds with its panic), and the
\* runtime is dropped with it: the dispatcher task is dropped at an await,
\* with the event it holds, the receiver and the events still queued.
\* A process that lives on after start_app has returned: the dispatcher task
\* is kept.
Shutdown_TaskKept ==
    /\ Ended
    /\ dpc \in DispAwaits
    /\ UNCHANGED vars

Shutdown ==
    /\ Ended
    /\ dpc \in DispAwaits
    /\ dpc' = "cancelled"
    /\ lock' = IF lock = "disp" THEN "free" ELSE lock
    /\ UNCHANGED <<State, chan, eventVars, mainVars, calls, dcur, current_state,
                   new_value>>

(***************************************************************************)
(* The specifications.                                                     *)
(***************************************************************************)
Main(env) ==
    \/ PeripheralNew
    \/ PollLock \/ IsPowered \/ Sleep
    \/ AddLock \/ AddService
    \/ AdvLock \/ StartAdvertising
    \/ ConsoleEnd \/ ConsoleError(env) \/ ConsoleLine(env)
    \/ ConsoleMatch \/ Println \/ ConsoleLock \/ ConsoleUpdate(env)

Dispatcher(env) ==
    \/ Recv \/ HandleLogOnly
    \/ ReadLoad \/ ReadSend(env)
    \/ WriteDecode \/ WriteLock \/ WriteUpdate(env) \/ WriteSend(env)

\* The program in an environment env: the events the facade may emit, the
\* lines stdin may hold, and what update_characteristic and a send on a
\* responder may return.
NextOver(env) ==
    \/ Emit(env)
    \/ Main(env)
    \/ Dispatcher(env)
    \/ Shutdown

Env(evs, max_events, lns, max_lines, upd, snd) ==
    [events |-> evs, max_events |-> max_events,
     lines |-> lns, max_lines |-> max_lines,
     update_results |-> upd, send_results |-> snd]

StateUpdateEvents == {Ev("StateUpdate", <<>>)}

\* Read requests between writes of "on" and "off", beside a console that
\* clears; sends may fail.
ReadEnv ==
    Env(WriteEvents({B_on, B_off}) \cup ReadEvents \cup StateUpdateEvents,
        MaxEvents, {B_off}, MaxLines, {"Ok"}, Results)

\* Write requests of every kind of payload, beside a console that sets.
WriteEnv ==
    Env(WriteEvents({B_on, B_off_nbsp, B_on_padded, B_maybe_padded, B_bad})
            \cup ReadEvents \cup StateUpdateEvents,
        MaxEvents, {B_ON}, MaxLines, {"Ok"}, {"Ok"})

\* Write requests that match, do not match and do not decode; the facade may
\* fail to update.
AckEnv ==
    Env(WriteEvents({B_on, B_maybe, B_bad})
            \cup ReadEvents \cup StateUpdateEvents,
        MaxEvents, {B_off}, MaxLines, Results, {"Ok"})

\* Console lines of every kind, beside remote writes and reads.
ConsoleEnv ==
    Env(WriteEvents({B_on, B_off}) \cup ReadEvents \cup StateUpdateEvents,
        MaxConsoleEvents,
        {B_on, B_off, B_ON, B_On_padded, B_maybe, B_bad}, MaxConsoleLines,
        {"Ok"}, {"Ok"})

Next == NextOver(ReadEnv)

Spec == Init /\ [][Next]_vars

WriteSpec == Init /\ [][NextOver(WriteEnv)]_vars

\* Write requests whose text differs from the tokens, or only in case.
CaseEnv ==
    Env(WriteEvents({B_on, B_ON, B_Off, B_maybe})
            \cup ReadEvents \cup StateUpdateEvents,
        MaxEvents, {B_off}, MaxLines, {"Ok"}, {"Ok"})

CaseSpec == Init /\ [][NextOver(CaseEnv)]_vars

AckSpec == Init /\ [][NextOver(AckEnv)]_vars

ConsoleSpec == Init /\ [][NextOver(ConsoleEnv)]_vars

\* Requests beside a console, for what is true of every fair execution.
FairEnv ==
    Env(WriteEvents({B_on}) \cup ReadEvents \cup StateUpdateEvents,
        MaxEvents, {B_off}, MaxLines, {"Ok"}, {"Ok"})

\* The steps of start_app that wait for nothing but the scheduler and the
\* return of a facade call (reading stdin waits for the user, and println!
\* for the reader of stdout).
MainRuns(env) ==
    \/ PeripheralNew
    \/ IsPowered \/ Sleep \/ AddService \/ StartAdvertising
    \/ ConsoleMatch \/ ConsoleUpdate(env)

\* The steps in which start_app takes the lock.
MainLocks == PollLock \/ AddLock \/ AdvLock \/ ConsoleLock

\* The steps of the dispatcher task other than taking the lock; Recv is
\* enabled only when an event is queued.
DispatcherRuns(env) ==
    \/ Recv \/ HandleLogOnly
    \/ ReadLoad \/ ReadSend(env)
    \/ WriteDecode \/ WriteUpdate(env) \/ WriteSend(env)

\* The tokio scheduler runs every task that can run, every facade call
\* returns, and tokio's Mutex is fair (FIFO): a task waiting for it gets it
\* when it is freed again and again.
Fairness(env) ==
    /\ WF_vars(MainRuns(env))
    /\ WF_vars(DispatcherRuns(env))
    /\ SF_vars(MainLocks)
    /\ SF_vars(WriteLock)

FairSpec == Init /\ [][NextOver(FairEnv)]_vars /\ Fairness(FairEnv)

\* main returns as soon as start_app does and the process ends: the runtime
\* drops the dispatcher task the next time it is at an await.
ExitSpec ==
    /\ Init /\ [][NextOver(FairEnv)]_vars
    /\ Fairness(FairEnv)
    /\ SF_vars(Shutdown)

\* Writes that set, differ in case and do not decode, beside a console whose
\* lines are unrecognized or recognized after lowercasing.
OffEnv ==
    Env(WriteEvents({B_on, B_ON, B_bad}) \cup ReadEvents \cup StateUpdateEvents,
        MaxEvents, {B_maybe, B_ON}, MaxLines, {"Ok"}, {"Ok"})

OffSpec == Init /\ [][NextOver(OffEnv)]_vars

\* Events of every log-only kind between requests.
LogEnv ==
    Env(WriteEvents({B_on}) \cup ReadEvents \cup LogOnlyEvents,
        MaxEvents, {B_off}, MaxLines, {"Ok"}, {"Ok"})

LogSpec == Init /\ [][NextOver(LogEnv)]_vars

(***************************************************************************)
(* The claims.                                                             *)
(***************************************************************************)
Ids == 1..Len(events)

IsRead(id) == events[id].kind = "ReadRequest"
IsWrite(id) == events[id].kind = "WriteRequest"

\* handle_updates has been called with the event and has returned.
Handled(id) == branch[id] # "none" /\ dcur # id

\* C1: every ReadRequest the dispatcher has handled got exactly one send on
\* its responder, of kind Success, whose value is "on" if STATE was ON when
\* the handler loaded it and "off" otherwise; no read request ever gets two.
C1_ReadAnsweredWithLoadedState ==
    \A id \in Ids :
        IsRead(id) =>
            /\ Len(resp[id]) <= 1
            /\ Handled(id) =>
                /\ Len(resp[id]) = 1
                /\ resp[id][1].type = "ReadRequestResponse"
                /\ resp[id][1].response = "Success"
                /\ loaded[id] \in {"ON", "OFF"}
                /\ resp[id][1].value = (IF loaded[id] = "ON" THEN B_on ELSE B_off)

\* A read was answered "on" from a load of ON, a console "off" landed between
\* the load and now, and another read was answered "off".
C1_Witness ==
    /\ State = FALSE
    /\ lines # <<>>
    /\ \E id \in Ids :
        /\ IsRead(id) /\ Handled(id)
        /\ loaded[id] = "ON"
        /\ resp[id] # <<>> /\ resp[id][1].value = B_on

\* The response a write handler sends.
WriteSuccess(r) ==
    /\ r.type = "WriteRequestResponse"
    /\ r.response = "Success"

\* The update_characteristic calls the handler of event id has made.
UpdatesOf(id) ==
    {k \in 1..Len(calls) : calls[k].by = "dispatcher" /\ calls[k].n = id}

\* C2: every WriteRequest the dispatcher has handled got exactly one send on
\* its responder, of kind Success, whatever its payload and whatever
\* update_characteristic returned; no write request ever gets two sends or one
\* of another kind.
C2_WriteAcknowledgedOnce ==
    \A id \in Ids :
        IsWrite(id) =>
            /\ Len(resp[id]) <= 1
            /\ \A k \in 1..Len(resp[id]) : WriteSuccess(resp[id][k])
            /\ Handled(id) => Len(resp[id]) = 1

\* An undecodable write and a write whose update_characteristic failed have
\* both been handled and acknowledged.
C2_Witness ==
    \E i, j \in Ids :
        /\ IsWrite(i) /\ Handled(i) /\ branch[i] = "non_utf8"
        /\ IsWrite(j) /\ Handled(j)
        /\ \E k \in UpdatesOf(j) : calls[k].result = "Err"
        /\ Len(resp[i]) = 1 /\ Len(resp[j]) = 1

\* The token a write payload stands for: "on" or "off" when it is text that
\* trims to exactly that, "none" otherwise.
TokenOf(value) ==
    LET msg == from_utf8(value)
    IN  IF msg.ok /\ trim(msg.chars) = <<111, 110>> THEN "on"
        ELSE IF msg.ok /\ trim(msg.chars) = <<111, 102, 102>> THEN "off"
        ELSE "none"

RECURSIVE StateAfter(_, _, _)
\* STATE after the write requests among the events lo..hi that the dispatcher
\* has taken up, starting from st.
StateAfter(st, lo, hi) ==
    IF lo > hi THEN st
    ELSE LET tok == IF IsWrite(lo) /\ branch[lo] # "none"
                    THEN TokenOf(events[lo].value) ELSE "none"
         IN  StateAfter(IF tok = "on" THEN TRUE
                        ELSE IF tok = "off" THEN FALSE ELSE st,
                        lo + 1, hi)

\* C3: after any sequence of write requests handled since the last console
\* command (or since the start), STATE is the token of the last of them whose
\* payload trims to exactly "on" or "off", and is what the console command (or
\* the start) left when there is none.
C3_StateIsLastToken ==
    State = StateAfter(base, mark + 1, Len(events))

\* " on\n" then " maybe\n", with no console command: STATE is ON.
C3_Witness ==
    /\ lines = <<>>
    /\ Len(events) = 2
    /\ events[1] = Ev("WriteRequest", B_on_padded)
    /\ events[2] = Ev("WriteRequest", B_maybe_padded)
    /\ Handled(1) /\ Handled(2)
    /\ State = TRUE

\* The dispatcher takes a step of the handler of a write request.
WriteStep == dcur # 0 /\ IsWrite(dcur) /\ dpc' # dpc

\* The write handler returns.
WriteReturns == dcur # 0 /\ IsWrite(dcur) /\ dcur' = 0

\* Payloads that are text and do not trim to "on" or "off": "maybe",
\* " maybe\n", "ON", "Off".
OtherText == {B_maybe, B_maybe_padded, B_ON, B_Off}

\* Payloads that are not text: [0xFF, 0xFE].
NotText == {B_bad}

\* C4: when the handler of a write request whose payload is text other than
\* "on" or "off" after trimming ("maybe", "ON", "Off") decodes it, STATE is
\* left as it is; when that handler returns, the request has exactly one
\* response, a Success.
C4_UnrecognizedWriteKeepsState ==
    [][ /\ (WriteStep /\ dpc = "handle" /\ events[dcur].value \in OtherText)
            => State' = State
        /\ (WriteReturns /\ events[dcur].value \in OtherText)
            => /\ Len(resp'[dcur]) = 1
               /\ WriteSuccess(resp'[dcur][1]) ]_vars

\* "on" then "Off": both acknowledged, STATE still ON.
C4_Witness ==
    /\ lines = <<>>
    /\ Len(events) = 2
    /\ events[1] = Ev("WriteRequest", B_on)
    /\ events[2] = Ev("WriteRequest", B_Off)
    /\ Handled(1) /\ Handled(2)
    /\ branch[2] = "unrecognized"
    /\ Len(resp[2]) = 1
    /\ State = TRUE

\* C5: when the handler of a write request whose payload is not UTF-8 decodes
\* it, STATE is left as it is and the decode-failure arm is taken (the one
\* that logs the error); when that handler returns, the request has exactly
\* one response, a Success, and no update_characteristic call.
C5_UndecodableWriteKeepsState ==
    [][ /\ (WriteStep /\ dpc = "handle" /\ events[dcur].value \in NotText)
            => /\ State' = State
               /\ branch'[dcur] = "non_utf8"
        /\ (WriteReturns /\ events[dcur].value \in NotText)
            => /\ Len(resp'[dcur]) = 1
               /\ WriteSuccess(resp'[dcur][1])
               /\ UpdatesOf(dcur) = {} ]_vars

\* "on" then [0xFF, 0xFE]: both acknowledged, STATE still ON.
C5_Witness ==
    /\ lines = <<>>
    /\ Len(events) = 2
    /\ events[1] = Ev("WriteRequest", B_on)
    /\ events[2] = Ev("WriteRequest", B_bad)
    /\ Handled(1) /\ Handled(2)
    /\ branch[2] = "non_utf8"
    /\ Len(resp[2]) = 1 /\ WriteSuccess(resp[2][1])
    /\ State = TRUE

\* The console loop is working on the last line of lines.
InLine == mpc \in {"match", "println", "lock", "update_characteristic"}

\* The console lines whose arm has been left.
LinesDone == IF InLine THEN Len(lines) - 1 ELSE Len(lines)

\* The update_characteristic calls of the console loop, in order.
ConsoleCalls == SelectSeq(calls, LAMBDA c : c.by = "console")

\* The console loop takes the step it is at.
ConsoleStep(at) == mpc = at /\ mpc' # at

\* Lines that trim and lowercase to "on", to "off", and to neither.
OnLine(in) == in \in {B_on, B_ON, B_On_padded} \/ trimmed_input(from_utf8(in).chars) = <<111, 110>>
OffLine(in) == in = B_off \/ trimmed_input(from_utf8(in).chars) = <<111, 102, 102>>
OtherLine(in) == in = B_maybe \/ (~OnLine(in) /\ ~OffLine(in))

Last(seq) == seq[Len(seq)]

\* C6: when the console loop matches a line that trims and lowercases to "on"
\* ("on", "ON", " On "), STATE becomes ON and "STATE changed to: ON" is
\* printed, and likewise OFF for "off"; the update_characteristic call the loop
\* then makes for the line carries the line as it was read.
C6_ConsoleTokenSetsState ==
    [][ /\ (ConsoleStep("match") /\ OnLine(input)) => State' = TRUE
        /\ (ConsoleStep("match") /\ OffLine(input)) => State' = FALSE
        /\ (ConsoleStep("println") /\ OnLine(input))
            => stdout' = Append(stdout, Printed("STATE changed to: ON", <<>>))
        /\ (ConsoleStep("println") /\ OffLine(input))
            => stdout' = Append(stdout, Printed("STATE changed to: OFF", <<>>))
        /\ (ConsoleStep("lock") /\ (OnLine(input) \/ OffLine(input)))
            => mpc' = "update_characteristic"
        /\ (ConsoleStep("update_characteristic")
                /\ (OnLine(input) \/ OffLine(input)))
            => /\ Len(calls') = Len(calls) + 1
               /\ Last(calls').op = "update_characteristic"
               /\ Last(calls').value = input ]_vars

\* C7: the console loop has made exactly one update_characteristic call for
\* every line whose arm it has left and none for the line it is working on, in
\* the order of the lines, each carrying the line as it was read; and when it
\* matches a line that normalizes to neither "on" nor "off", STATE is left as
\* it is.
C7_ConsoleForwardsRawLine ==
    /\ [](/\ Len(ConsoleCalls) = LinesDone
          /\ \A k \in 1..Len(ConsoleCalls) :
                /\ ConsoleCalls[k].op = "update_characteristic"
                /\ ConsoleCalls[k].n = k
                /\ ConsoleCalls[k].value = lines[k])
    /\ [][(ConsoleStep("match") /\ OtherLine(input)) => State' = State]_vars

\* The places of the calls of op in calls.
CallsOf(op) == {k \in 1..Len(calls) : calls[k].op = op}

\* start_app is in its readiness poll.
Polling == mpc \in {"poll", "is_powered", "sleep"}

\* start_app is past add_service and start_advertising: in the console loop,
\* or at its end after them (returned, or panicked in a println!).
StartupOver == mpc \in {"console", "match", "println", "lock",
                        "update_characteristic", "panicked"}
                  \/ Returned

\* add_service and start_advertising are invoked at most once each, add_service
\* first, and neither unless the last poll returned powered.
StartupOrder ==
    /\ Cardinality(CallsOf("add_service")) <= 1
    /\ Cardinality(CallsOf("start_advertising")) <= 1
    /\ \A a \in CallsOf("start_advertising") :
        \E b \in CallsOf("add_service") : b < a
    /\ (CallsOf("add_service") \cup CallsOf("start_advertising") # {})
        => polled = "Ok(true)"
    /\ Polling => CallsOf("add_service") \cup CallsOf("start_advertising") = {}
    /\ mpc \in {"add_service", "start_advertising"} => polled = "Ok(true)"

\* C8 as stated: whenever the polls have ended with one that returned
\* powered and startup is over, add_service and start_advertising have each
\* been invoked exactly once, in that order, and neither before that poll.
C8_AsStated ==
    /\ StartupOrder
    /\ StartupOver =>
        /\ Cardinality(CallsOf("add_service")) = 1
        /\ Cardinality(CallsOf("start_advertising")) = 1

\* C8, amended: ... add_service has been invoked exactly once, and
\* start_advertising exactly once if add_service returned Ok and not at all if
\* it returned an error.
C8_StartupCallsOnceInOrder ==
    /\ StartupOrder
    /\ StartupOver =>
        /\ Cardinality(CallsOf("add_service")) = 1
        /\ \A b \in CallsOf("add_service") :
            Cardinality(CallsOf("start_advertising"))
                = (IF calls[b].result = "Ok" THEN 1 ELSE 0)

\* After polls that found the peripheral not powered and one that found it
\* powered, both calls have been made and the console loop is reached.
C8_Witness ==
    /\ npolls >= 1
    /\ mpc = "console"
    /\ Len(calls) = 2
    /\ calls[1].op = "add_service"
    /\ calls[2].op = "start_advertising"

\* add_service has returned an error.
AddServiceFailed ==
    \E k \in CallsOf("add_service") : calls[k].result = "Err"

\* C9: once add_service has returned an error, start_advertising has not been
\* invoked and never is, add_service has been invoked once, and start_app has
\* returned without reading a console line, printing or notifying.
C9_AddServiceFailureIsFatal ==
    AddServiceFailed =>
        /\ CallsOf("start_advertising") = {}
        /\ Cardinality(CallsOf("add_service")) = 1
        /\ mpc = "failed_add_service"
        /\ lines = <<>>
        /\ stdout = <<>>
        /\ ConsoleCalls = <<>>

\* add_service failed, and the dispatcher went on to acknowledge a write
\* before the runtime was gone.
C9_Witness ==
    /\ AddServiceFailed
    /\ mpc = "failed_add_service"
    /\ \E id \in Ids : IsWrite(id) /\ Handled(id) /\ Len(calls) = 2
    /\ dpc = "cancelled"

\* The event id is a read or write request placed on the channel with its
\* responder.
Pending(id) == id \in Ids /\ (IsRead(id) \/ IsWrite(id))

\* The request id has had exactly one response.
Answered(id) == id \in Ids /\ Len(resp[id]) = 1

\* No request has had more than one response.
AtMostOneResponse == \A id \in Ids : Len(resp[id]) <= 1

\* A request stays placed, a response stays given and an ended process stays
\* ended, so "a placed request eventually has its response" is "again and
\* again, the request is not placed or has its response".
\*
\* C10 as stated: in every fair execution every pending request eventually
\* has exactly one response, and none ever has more than one.
C10_AsStated ==
    /\ []AtMostOneResponse
    /\ \A id \in 1..MaxEvents : []<>(Pending(id) => Answered(id))

\* C10, amended: no pending request ever has more than one response, and in
\* every execution in which every task that can run is run and every facade
\* call returns, every pending request eventually has exactly one unless the
\* process ends first: start_app returns (console input ends or fails, or
\* startup aborts) or it panics (in the unwrap of Peripheral::new, when
\* requests may already be queued, or in a println!). The channel and the
\* dispatcher task are then dropped, and the requests still queued or in the
\* task's hands stay unanswered.
C10_AnsweredWhileRunning ==
    /\ []AtMostOneResponse
    /\ \A id \in 1..MaxEvents : []<>(Pending(id) => (Answered(id) \/ Ended))

\* A write request has been answered while start_app is in the console loop,
\* after a console line, and a read request after it.
C10_Witness ==
    /\ ~Ended
    /\ lines # <<>>
    /\ Len(events) = 2
    /\ IsWrite(1) /\ Answered(1) /\ mark = 0
    /\ IsRead(2) /\ Answered(2)

\* The event has been taken from the channel.
Taken(id) == id \in Ids /\ \A k \in 1..Len(chan) : chan[k] # id

\* The handling of the event is complete: a log-only event has been logged; a
\* request has had its one send, and a write of text its one
\* update_characteristic call before it.
Complete(id) ==
    /\ branch[id] # "none"
    /\ (IsRead(id) \/ IsWrite(id)) => Len(resp[id]) = 1
    /\ IsWrite(id) /\ branch[id] # "non_utf8" => Cardinality(UpdatesOf(id)) = 1

\* C11: events are taken from the channel in arrival order, and when an event
\* has been taken the handling of every earlier event is complete, with its
\* update_characteristic call and the send of its response: at most one event
\* is ever in the hands of the dispatcher.
C11_OneEventAtATime ==
    /\ \A k \in 1..Len(chan) - 1 : chan[k] < chan[k + 1]
    /\ \A i, j \in Ids :
        i < j /\ Taken(j) => Taken(i) /\ Complete(i)

\* A write of "on" has been handled, with its call and its response, and the
\* handler of the write after it waits for the lock, which start_app holds.
C11_Witness ==
    /\ Len(events) = 2
    /\ IsWrite(1) /\ Complete(1) /\ branch[1] = "on"
    /\ IsWrite(2) /\ dcur = 2 /\ dpc = "write_lock" /\ lock = "main"

\* C12 as stated: a console read error ends the console loop only; the
\* dispatcher task lives on to handle the requests that arrive.
C12_AsStated == mpc = "read_error" => dpc # "cancelled"

\* C12, amended: a console read error ends the console loop (no line is
\* consumed, nothing is printed and no console call is made after it) and with
\* it start_app and main: the dispatcher task is eventually dropped, and once
\* it is dropped no event is queued, handled or answered.
C12_ReadErrorEndsProcess ==
    /\ [][mpc = "read_error" =>
            /\ mpc' = "read_error"
            /\ UNCHANGED <<lines, stdout>>
            /\ Len(calls') > Len(calls) => calls'[Len(calls')].by = "dispatcher"]_vars
    /\ (mpc = "read_error") ~> (dpc = "cancelled")
    /\ [][dpc = "cancelled" =>
            UNCHANGED <<State, events, chan, resp, branch, loaded, calls, dpc>>]_vars

\* The console loop ended on a read error after a request had been answered,
\* and the dispatcher was dropped with a request still queued and unanswered.
C12_Witness ==
    /\ mpc = "read_error"
    /\ dpc = "cancelled"
    /\ Len(events) = 2
    /\ Answered(1)
    /\ (IsRead(2) \/ IsWrite(2)) /\ chan = <<2>> /\ resp[2] = <<>>

\* Running: power has been observed on, and add_service and start_advertising
\* have returned Ok.
Running ==
    /\ polled = "Ok(true)"
    /\ \E k \in CallsOf("add_service") : calls[k].result = "Ok"
    /\ \E k \in CallsOf("start_advertising") : calls[k].result = "Ok"

\* The console loop has been entered: it waits for a line, works on one, or
\* has ended.
ConsoleEntered ==
    \/ mpc \in {"console", "match", "println", "lock", "update_characteristic",
                "eof", "read_error", "panicked"}
    \/ lines # <<>> \/ stdout # <<>> \/ ConsoleCalls # <<>>

\* The dispatcher has taken up an event.
DispatcherEntered == \E id \in Ids : branch[id] # "none"

\* C13 as stated: no event is handled by the dispatcher, STATE is not changed
\* by a write, and no console line is consumed, before Running.
C13_AsStated ==
    (DispatcherEntered \/ ConsoleEntered \/ State # FALSE) => Running

\* Peripheral::new has returned Ok: the dispatcher task has been spawned.
PeripheralCreated == mpc \notin {"new", "panicked_new"}

\* C13, amended: the console loop is entered, and a console line consumed,
\* only at Running; the dispatcher handles an event only once Peripheral::new
\* has returned Ok, which is before the readiness poll and so may be before
\* Running.
C13_ConsoleOnlyAtRunning ==
    /\ ConsoleEntered => Running
    /\ DispatcherEntered => PeripheralCreated

\* The dispatcher handled a write and notified before add_service was called,
\* and the console loop has since consumed a line, at Running.
C13_Witness ==
    /\ Len(calls) >= 3
    /\ calls[1].op = "update_characteristic" /\ calls[1].by = "dispatcher"
    /\ calls[2].op = "add_service"
    /\ calls[3].op = "start_advertising"
    /\ lines # <<>>
    /\ Running

\* The write payloads that trim to exactly "on" or "off", and the console
\* lines that trim and lowercase to them.
OnPayloads == {B_on, B_on_padded}
OffPayloads == {B_off, B_off_nbsp}
OnLines == {B_on, B_ON, B_On_padded}
OffLines == {B_off}

\* The console lines the loop has matched.
LinesMatched == IF mpc = "match" THEN Len(lines) - 1 ELSE Len(lines)

\* No write of a recognized "on" has been taken up by its handler and no
\* console line recognized as "on" has been matched.
NoOnYet ==
    /\ \A id \in Ids :
        IsWrite(id) /\ events[id].value \in OnPayloads => branch[id] = "none"
    /\ \A k \in 1..LinesMatched : lines[k] \notin OnLines

\* The step changes STATE the way a recognized token of a write or of a
\* console line does.
RecognizedStore ==
    \/ /\ dpc = "handle" /\ IsWrite(dcur)
       /\ \/ events[dcur].value \in OnPayloads /\ State' = TRUE
          \/ events[dcur].value \in OffPayloads /\ State' = FALSE
    \/ /\ mpc = "match"
       /\ \/ input \in OnLines /\ State' = TRUE
          \/ input \in OffLines /\ State' = FALSE

\* C14: STATE is OFF at the start and until the first recognized "on", and
\* every read request handled until then loads OFF and is answered "off",
\* whatever startup steps, log-only events, unrecognized or undecodable
\* writes, unrecognized console lines or failed facade calls came before;
\* STATE changes only in the step of a write handler or of the console loop
\* that matches a recognized token.
C14_OffUntilRecognizedOn ==
    /\ [](NoOnYet =>
            /\ State = FALSE
            /\ \A id \in Ids :
                IsRead(id) =>
                    /\ loaded[id] \in {"none", "OFF"}
                    /\ \A k \in 1..Len(resp[id]) : resp[id][k].value = B_off)
    /\ [][State' # State => RecognizedStore]_vars

\* After a poll that did not find power, a write of "ON" and the console
\* line "maybe", a read has been answered "off".
C14_Witness ==
    /\ NoOnYet
    /\ npolls >= 1
    /\ Len(events) = 2
    /\ events[1] = Ev("WriteRequest", B_ON) /\ Handled(1)
    /\ IsRead(2) /\ Handled(2) /\ resp[2][1].value = B_off
    /\ lines = <<B_maybe>> /\ mpc = "console"

\* The event is of a kind handle_updates only logs.
IsLogOnly(id) == events[id].kind \in LogOnlyKinds

\* C15: the step that handles a StateUpdate, a
\* CharacteristicSubscriptionUpdate or an event of any other kind than a
\* request leaves STATE, the calls on the facade and every responder as they
\* are and ends with the dispatcher at recv for the next event; no such event
\* ever has an update_characteristic call or a response.
C15_LogOnlyEventsChangeNothing ==
    /\ [](\A id \in Ids :
            IsLogOnly(id) => resp[id] = <<>> /\ UpdatesOf(id) = {})
    /\ [][dpc = "handle" /\ IsLogOnly(dcur) /\ dpc' # dpc =>
            /\ UNCHANGED <<State, lock, calls, resp, chan>>
            /\ dpc' = "recv"
            /\ branch'[dcur] = events[dcur].kind]_vars

\* A subscription update was handled, and the write of "on" queued behind it
\* was then handled and acknowledged.
C15_Witness ==
    /\ Len(events) = 2
    /\ events[1].kind = "CharacteristicSubscriptionUpdate" /\ Handled(1)
    /\ IsWrite(2) /\ Handled(2) /\ Len(resp[2]) = 1
    /\ State = TRUE
    /\ Cardinality(CallsOf("update_characteristic")) = 1

\* The send on the responder of the request failed.
SendFailed(id) == \E k \in 1..Len(resp[id]) : resp[id][k].result = "Err"

\* The dispatcher makes the send of a response.
SendStep == dpc \in {"read_send", "write_send"} /\ dpc' # dpc

\* C16: a send is made once per request whether it fails or not; the step
\* that sends, failing or not, leaves STATE as the handler set it and the
\* facade untouched and ends with the dispatcher at recv for the next event;
\* and every request handled after a failed send has had its one send, a
\* read the value of the STATE it loaded and a write Success.
C16_FailedSendIsNotRetried ==
    /\ [](\A id \in Ids : Len(resp[id]) <= 1)
    /\ [][SendStep =>
            /\ Len(resp'[dcur]) = 1
            /\ UNCHANGED <<State, calls, chan, lock, branch>>
            /\ dpc' = "recv" /\ dcur' = 0]_vars
    /\ [](\A i, j \in Ids :
            i < j /\ SendFailed(i) /\ Handled(j) /\ (IsRead(j) \/ IsWrite(j)) =>
                /\ Len(resp[j]) = 1
                /\ resp[j][1].response = "Success"
                /\ IsRead(j) =>
                    resp[j][1].value = (IF loaded[j] = "ON" THEN B_on ELSE B_off))

\* The send for a write of "on" failed; STATE is ON, and the read queued
\* behind it was answered "on".
C16_Witness ==
    /\ Len(events) = 2
    /\ events[1] = Ev("WriteRequest", B_on) /\ Handled(1) /\ SendFailed(1)
    /\ IsRead(2) /\ Handled(2)
    /\ resp[2][1].value = B_on /\ resp[2][1].result = "Ok"
    /\ State = TRUE

\* The handler of the write id has made exactly one update_characteristic
\* call, and it carries value.
NotifiedOnce(id, value) ==
    /\ Cardinality(UpdatesOf(id)) = 1
    /\ \A k \in UpdatesOf(id) : calls[k].value = value

\* What holds of every write, matched or not: no handler ever makes two
\* calls; a handled write of "on" or "off" has made one call carrying the
\* token, and a handled write that does not decode none.
NotifiesOnMatch(id) ==
    /\ Cardinality(UpdatesOf(id)) <= 1
    /\ Handled(id) /\ events[id].value \in OnPayloads => NotifiedOnce(id, ON_STR)
    /\ Handled(id) /\ events[id].value \in OffPayloads => NotifiedOnce(id, OFF_STR)
    /\ events[id].value \in NotText => UpdatesOf(id) = {}

\* C17 as stated: a handled write whose text trims to "on" or "off" has
\* made exactly one update_characteristic call carrying the token, and a
\* write of unrecognized text or of bytes that do not decode makes no
\* update_characteristic call.
C17_AsStated ==
    \A id \in Ids :
        IsWrite(id) =>
            /\ NotifiesOnMatch(id)
            /\ events[id].value \in OtherText => UpdatesOf(id) = {}

\* C17, amended: a handled write whose text trims to "on" or "off" has made
\* exactly one update_characteristic call carrying the token, a handled write
\* of unrecognized text exactly one carrying the text as it was received
\* (" maybe\n" with its whitespace), and a write of bytes that do not decode
\* makes none.
C17_WriteNotifiesAllText ==
    \A id \in Ids :
        IsWrite(id) =>
            /\ NotifiesOnMatch(id)
            /\ Handled(id) /\ events[id].value \in OtherText =>
                NotifiedOnce(id, events[id].value)

\* A write of " on\n" has notified "on", and the write of " maybe\n" after
\* it has notified " maybe\n".
C17_Witness ==
    /\ Len(events) = 2
    /\ events[1] = Ev("WriteRequest", B_on_padded) /\ Handled(1)
    /\ events[2] = Ev("WriteRequest", B_maybe_padded) /\ Handled(2)
    /\ Len(calls) = 2
    /\ calls[1].value = B_on /\ calls[2].value = B_maybe_padded
    /\ trim(from_utf8(B_maybe_padded).chars) # from_utf8(B_maybe_padded).chars

\* Every console line read and every write payload emitted is exactly "on" or
\* "off", and every update_characteristic call has succeeded.
TokensOnly ==
    /\ \A k \in 1..Len(lines) : lines[k] \in {B_on, B_off}
    /\ \A id \in Ids : IsWrite(id) => events[id].value \in {B_on, B_off}
    /\ \A k \in CallsOf("update_characteristic") : calls[k].result = "Ok"

\* No handler and no console command is in progress: the dispatcher waits for
\* an event, and the console loop for a line or it has ended in a return.
BothIdle ==
    /\ dpc = "recv" /\ dcur = 0
    /\ mpc = "console" \/ Returned

\* The update_characteristic calls, in order.
Broadcasts == SelectSeq(calls, LAMBDA c : c.op = "update_characteristic")

\* C18: when every line and payload is exactly "on" or "off" and every
\* update_characteristic call has succeeded, then whenever both tasks are
\* idle the payload of the most recent update_characteristic call is the
\* text of STATE.
C18_LastBroadcastIsState ==
    TokensOnly /\ BothIdle /\ Broadcasts # <<>> =>
        Last(Broadcasts).value = (IF State THEN B_on ELSE B_off)

\* The lock is free of a task that waits for its next input: the dispatcher
\* at recv, the console loop at its next line, start_app in the sleep between
\* polls (or at its end).
LockFreeAtSuspension ==
    /\ dpc = "recv" => lock # "disp"
    /\ mpc \in {"console", "sleep"} \/ Ended => lock # "main"

\* The handler of the write id waits for the lock.
WaitsForLock(id) == dcur = id /\ dpc = "write_lock"

\* The handler of the write id has come to wait for the lock: it has decoded
\* the payload as text, after which it awaits the lock. (It stays so, which
\* makes "a handler that waits eventually sends" the statement that again
\* and again the handler has not come to wait or has sent.)
HasWaitedForLock(id) ==
    id \in Ids /\ branch[id] \in {"on", "off", "unrecognized"}

\* C19 as stated: the lock is never held at a suspension point, and in every
\* fair execution a write handler that waits for the lock eventually has it
\* and sends its response.
C19_AsStated ==
    /\ []LockFreeAtSuspension
    /\ \A id \in 1..MaxEvents : []<>(HasWaitedForLock(id) => Answered(id))

\* C19, amended: the lock is never held at a suspension point, and in every
\* fair execution a write handler that waits for the lock eventually has it
\* and sends its response unless the process ends first (start_app returns,
\* or panics): the handler is then dropped where it waits.
C19_LockFreeAtSuspension ==
    /\ []LockFreeAtSuspension
    /\ \A id \in 1..MaxEvents :
            []<>(HasWaitedForLock(id) => (Answered(id) \/ Ended))

\* After a first request was answered, a write handler waits for the lock
\* while the console loop holds it for its update_characteristic call.
C19_Witness ==
    /\ Len(events) = 2
    /\ Answered(1)
    /\ IsWrite(2) /\ WaitsForLock(2)
    /\ lock = "main" /\ mpc = "update_characteristic"

=============================================================================
